---- MODULE Spec2Model ----
(***************************************************************************)
(* Model of the receipt processor (receiptHandler.go): the in-memory      *)
(* receipt store guarded by rh.mu, the two HTTP handlers, and the points   *)
(* engine findPoints.                                                      *)
(*                                                                         *)
(* Strings are TLA+ strings, taken apart character by character with Head  *)
(* and Tail.  Input strings are drawn from the alphabet of ASCII letters,  *)
(* digits, space, '&', '-', ':', '.', '+'; on this alphabet byte length    *)
(* and rune count coincide.                                                *)
(*                                                                         *)
(* float64 values are kept as exact decimals [num, scale] = num/10^scale.  *)
(* Every decimal drawn here has at most two fractional digits and at most  *)
(* four integer digits.  For such x: the nearest double is an integer iff  *)
(* x is; it is a multiple of 0.25 iff x is (multiples of 0.25 are exact    *)
(* doubles); and math.Ceil(x*0.2) equals the exact ceiling, because x*0.2  *)
(* is either at least 1/500 away from an integer or, when x = 5k, the      *)
(* product k*(1+2^-54) rounds to k.                                        *)
(***************************************************************************)
EXTENDS Integers, Sequences, FiniteSets, TLC

(***************************************************************************)
(* Bounds                                                                  *)
(***************************************************************************)
MaxItems == 2
MaxReceipts == 2
NumProcs == 2

(***************************************************************************)
(* String helpers                                                          *)
(***************************************************************************)
RECURSIVE Chars(_)
Chars(s) == IF Len(s) = 0 THEN <<>> ELSE <<Head(s)>> \o Chars(Tail(s))

LetterChars == {"a","b","c","d","e","f","g","h","i","j","k","l","m",
                "n","o","p","q","r","s","t","u","v","w","x","y","z",
                "A","B","C","D","E","F","G","H","I","J","K","L","M",
                "N","O","P","Q","R","S","T","U","V","W","X","Y","Z"}

DigitChars == {"0","1","2","3","4","5","6","7","8","9"}

IsLetter(c) == c \in LetterChars

IsDigit(c) == c \in DigitChars

IsSpace(c) == c \in {" ", "\t", "\n", "\r"}

DigitVal(c) == CASE c = "0" -> 0 [] c = "1" -> 1 [] c = "2" -> 2 [] c = "3" -> 3
                 [] c = "4" -> 4 [] c = "5" -> 5 [] c = "6" -> 6 [] c = "7" -> 7
                 [] c = "8" -> 8 [] c = "9" -> 9

RECURSIVE Pow10(_)
Pow10(n) == IF n = 0 THEN 1 ELSE 10 * Pow10(n - 1)

\* value of a sequence of digit characters, most significant first
RECURSIVE DigitsVal(_)
DigitsVal(cs) == IF cs = <<>> THEN 0
                 ELSE 10 * DigitsVal(SubSeq(cs, 1, Len(cs) - 1)) + DigitVal(cs[Len(cs)])

AllDigits(cs) == \A i \in 1..Len(cs) : IsDigit(cs[i])

\* strings.TrimSpace on a character sequence
RECURSIVE TrimLeft(_)
TrimLeft(cs) == IF cs # <<>> /\ IsSpace(cs[1]) THEN TrimLeft(Tail(cs)) ELSE cs

RECURSIVE TrimRight(_)
TrimRight(cs) == IF cs # <<>> /\ IsSpace(cs[Len(cs)])
                 THEN TrimRight(SubSeq(cs, 1, Len(cs) - 1)) ELSE cs

TrimSpace(cs) == TrimRight(TrimLeft(cs))

\* strings.Split(s, sep) for a one-character separator: always at least one
\* component, the empty string splits into one empty component
RECURSIVE SplitFrom(_, _, _)
SplitFrom(cs, sep, cur) ==
    IF cs = <<>> THEN <<cur>>
    ELSE IF cs[1] = sep THEN <<cur>> \o SplitFrom(Tail(cs), sep, <<>>)
    ELSE SplitFrom(Tail(cs), sep, Append(cur, cs[1]))

Split(cs, sep) == SplitFrom(cs, sep, <<>>)

StripSign(cs) == IF cs # <<>> /\ cs[1] \in {"+", "-"} THEN Tail(cs) ELSE cs

Sign(cs) == IF cs # <<>> /\ cs[1] = "-" THEN -1 ELSE 1

\* strconv.Atoi: optional sign, then one or more decimal digits
Atoi(cs) ==
    LET body == StripSign(cs)
    IN  IF body # <<>> /\ AllDigits(body)
        THEN [ok |-> TRUE, val |-> Sign(cs) * DigitsVal(body)]
        ELSE [ok |-> FALSE, val |-> 0]

\* strconv.ParseFloat on plain decimals: optional sign, digits with at most
\* one '.', at least one digit.  The value is num / 10^scale.
ParseFloat(cs) ==
    LET body  == StripSign(cs)
        parts == Split(body, ".")
        ip    == parts[1]
        fp    == IF Len(parts) = 2 THEN parts[2] ELSE <<>>
    IN  IF /\ Len(parts) <= 2
           /\ AllDigits(ip) /\ AllDigits(fp)
           /\ Len(ip) + Len(fp) > 0
        THEN [ok |-> TRUE, num |-> Sign(cs) * DigitsVal(ip \o fp), scale |-> Len(fp)]
        ELSE [ok |-> FALSE, num |-> 0, scale |-> 0]

\* x == math.Floor(x)
IsWhole(x) == x.num % Pow10(x.scale) = 0

\* math.Mod(x, 0.25) == 0
IsQuarterMultiple(x) == (4 * x.num) % Pow10(x.scale) = 0

\* int(math.Ceil(x * 0.2))
CeilFifth(x) == -((-(2 * x.num)) \div Pow10(x.scale + 1))

(***************************************************************************)
(* findPoints                                                              *)
(***************************************************************************)
Returned(points, err) == [kind |-> "return", points |-> points, err |-> err]

\* an index-out-of-range run-time panic: the call does not return
Panicked == [kind |-> "panic", points |-> 0, err |-> "index out of range"]

\* Go's % truncates toward zero
GoRem(a, b) == IF a >= 0 THEN a % b ELSE -((-a) % b)

\* rule 1: the retailer's letters and digits
AlnumCount(cs) == Cardinality({i \in 1..Len(cs) : IsLetter(cs[i]) \/ IsDigit(cs[i])})

\* whether the rule-5 loop looks at the item's price at all
DescriptionQualifies(item) == Len(TrimSpace(Chars(item.ShortDescription))) % 3 = 0

\* ItemLoop with the parse error skipped instead of returned
RECURSIVE ItemLoopSkipsBadPrice(_, _)
ItemLoopSkipsBadPrice(items, acc) ==
    IF items = <<>> THEN [ok |-> TRUE, points |-> acc]
    ELSE IF DescriptionQualifies(Head(items))
         THEN LET itemPrice == ParseFloat(Chars(Head(items).Price))
              IN  IF ~itemPrice.ok THEN ItemLoopSkipsBadPrice(Tail(items), acc)
                  ELSE ItemLoopSkipsBadPrice(Tail(items), acc + CeilFifth(itemPrice))
         ELSE ItemLoopSkipsBadPrice(Tail(items), acc)

\* rule 5: the loop over the items, in order, with its early return
RECURSIVE ItemLoop(_, _)
ItemLoop(items, acc) ==
    IF items = <<>> THEN [ok |-> TRUE, points |-> acc]
    ELSE IF DescriptionQualifies(Head(items))
         THEN LET itemPrice == ParseFloat(Chars(Head(items).Price))
              IN  IF ~itemPrice.ok THEN [ok |-> FALSE, points |-> 0]
                  ELSE ItemLoop(Tail(items), acc + CeilFifth(itemPrice))
         ELSE ItemLoop(Tail(items), acc)

\* TimeRule without the 14:00 exception
TimeRuleIncludesTwoPm(timeSplit, total) ==
    LET hrs == Atoi(timeSplit[1])
    IN  IF ~hrs.ok THEN Returned(0, "Atoi")
        ELSE IF Len(timeSplit) < 2 THEN Panicked
        ELSE LET mins == Atoi(timeSplit[2])
             IN  IF ~mins.ok THEN Returned(0, "Atoi")
                 ELSE IF hrs.val >= 14 /\ hrs.val < 16 THEN Returned(total + 10, "nil")
                 ELSE Returned(total, "nil")

\* rule 7, on the split time: hrs is parsed before timeSplit[1] is read
TimeRule(timeSplit, total) ==
    LET hrs == Atoi(timeSplit[1])
    IN  IF ~hrs.ok THEN Returned(0, "Atoi")
        ELSE IF Len(timeSplit) < 2 THEN Panicked
        ELSE LET mins == Atoi(timeSplit[2])
             IN  IF ~mins.ok THEN Returned(0, "Atoi")
                 ELSE IF hrs.val = 14 /\ mins.val = 0 THEN Returned(total, "nil")
                 ELSE IF hrs.val >= 14 /\ hrs.val < 16 THEN Returned(total + 10, "nil")
                 ELSE Returned(total, "nil")

\* rule 6, then rule 7
DateRule(re, total) ==
    LET splitStrs == Split(Chars(re.PurchaseDate), "-")
    IN  IF Len(splitStrs) # 3 THEN Returned(0, "invalid date")
        ELSE LET dateNum == Atoi(splitStrs[3])
             IN  IF ~dateNum.ok THEN Returned(0, "Atoi")
                 ELSE TimeRule(Split(Chars(re.PurchaseTime), ":"),
                               total + (IF GoRem(dateNum.val, 2) = 1 THEN 6 ELSE 0))

findPoints(re) ==
    LET count      == AlnumCount(Chars(re.Retailer))
        totalPrice == ParseFloat(Chars(re.Total))
    IN  IF ~totalPrice.ok THEN Returned(0, "ParseFloat")
        ELSE LET t2    == count + (IF IsWhole(totalPrice) THEN 50 ELSE 0)
                 t3    == t2 + (IF IsQuarterMultiple(totalPrice) THEN 25 ELSE 0)
                 t4    == t3 + 5 * (Len(re.Items) \div 2)
                 items == ItemLoop(re.Items, t4)
             IN  IF ~items.ok THEN Returned(0, "ParseFloat")
                 ELSE DateRule(re, items.points)

(***************************************************************************)
(* Data model                                                              *)
(***************************************************************************)
Item(desc, price) == [ShortDescription |-> desc, Price |-> price]

PostReceiptJSON(retailer, date, time, total, items) ==
    [Retailer |-> retailer, PurchaseDate |-> date, PurchaseTime |-> time,
     Total |-> total, Items |-> items]

StorageReceipt(id, r) ==
    [Id |-> id, Retailer |-> r.Retailer, PurchaseDate |-> r.PurchaseDate,
     PurchaseTime |-> r.PurchaseTime, Total |-> r.Total, Items |-> r.Items]

\* the zero value of PostReceiptJSON
ZeroReceipt == PostReceiptJSON("", "", "", "", <<>>)

\* the two receipts of TestPoint
ScenarioA ==
    PostReceiptJSON("Target", "2022-01-01", "13:01", "35.35",
        << Item("Mountain Dew 12PK", "6.49"),
           Item("Emils Cheese Pizza", "12.25"),
           Item("Knorr Creamy Chicken", "1.26"),
           Item("Doritos Nacho Cheese", "3.35"),
           Item("   Klarbrunn 12-PK 12 FL OZ  ", "12.00") >>)

ScenarioB ==
    PostReceiptJSON("M&M Corner Market", "2022-03-20", "14:33", "9.00",
        << Item("Gatorade", "2.25"), Item("Gatorade", "2.25"),
           Item("Gatorade", "2.25"), Item("Gatorade", "2.25") >>)

(***************************************************************************)
(* Inputs of the points engine                                             *)
(***************************************************************************)
Retailers == {"Target", "M&M 7"}

Totals == {"35.35", "9.00", "1.75", "abc"}

Descriptions == {"Gatorade", " Pepsi1 ", ""}

Prices == {"2.25", "5.00", "1.2.3"}

Dates == {"2022-01-01", "2022-03-20", "2022-03"}

Times == {"13:01", "14:00", "14:01", "15:59", "16:00", "", "1430", "14:30:00"}

ItemSet == {Item(d, pr) : d \in Descriptions, pr \in Prices}

ItemLists == UNION {[1..n -> ItemSet] : n \in 0..MaxItems}

Tests ==
    {StorageReceipt(1, r) : r \in {ScenarioA, ScenarioB}} \cup
    {StorageReceipt(1, PostReceiptJSON(rt, d, tm, tot, its)) :
        rt \in Retailers, d \in Dates, tm \in Times, tot \in Totals, its \in ItemLists}

(***************************************************************************)
(* The receipt store and the two handlers                                  *)
(***************************************************************************)
VARIABLES
    Receipts,      \* rh.Receipts
    mu,            \* rh.mu: NoOwner, or the handler holding it
    lastV7time,    \* the uuid generator's last issued timestamp/sequence
    pc,            \* where each handler goroutine stands
    body,          \* the request body of a POST being handled
    postReceipt,   \* handleProcessReceipts: the decoded payload
    storedData,    \* handleProcessReceipts: the receipt to store
    idFromURL,     \* handleGetReceiptPoints: the {id} path parameter
    rangeCopy,     \* handleGetReceiptPoints: the slice the range loop runs over
    idx,           \* handleGetReceiptPoints: the range loop's position
    receipt,       \* handleGetReceiptPoints: the loop variable
    points,        \* handleGetReceiptPoints: findPoints' first result
    resp,          \* what the handler wrote to its http.ResponseWriter
    returned,      \* the identifiers written in submission responses so far
    test,          \* TestPoint: the receipt under test
    pts,           \* TestPoint: findPoints' first result
    err,           \* TestPoint: findPoints' second result
    tpc            \* TestPoint: "off", "run", "ran" or "panicked"

handlerVars == <<Receipts, mu, lastV7time, pc, body, postReceipt, storedData,
                 idFromURL, rangeCopy, idx, receipt, points, resp, returned>>

testVars == <<test, pts, err, tpc>>

vars == <<Receipts, mu, lastV7time, pc, body, postReceipt, storedData,
          idFromURL, rangeCopy, idx, receipt, points, resp, returned,
          test, pts, err, tpc>>

(***************************************************************************)
(* TestPoint: findPoints applied to one receipt                            *)
(***************************************************************************)
RunTest ==
    /\ tpc = "run"
    /\ LET out == findPoints(test)
       IN  \/ /\ out.kind = "return"
              /\ pts' = out.points
              /\ err' = out.err
              /\ tpc' = "ran"
           \/ /\ out.kind = "panic"
              /\ tpc' = "panicked"
              /\ UNCHANGED <<pts, err>>
    /\ UNCHANGED <<test, handlerVars>>

(***************************************************************************)
(* Identifiers                                                             *)
(***************************************************************************)
\* the generator's timestamp when the process starts
ClockStart == 9

\* NewV7 handing out the last identifier again
NewV7Repeats(last) == last

\* uuid.NewV7: the generator never issues a timestamp/sequence twice; the
\* random bits of the identifier are left out
NewV7(last) == last + 1

HexDigits == Chars("0123456789abcdef")

HexChar(n) == HexDigits[n + 1]

\* uuid.UUID.String(): fixed-width lower-case hexadecimal
String(id) == HexChar((id \div 16) % 16) \o HexChar(id % 16)

FoldChar(c) == CASE c = "A" -> "a" [] c = "B" -> "b" [] c = "C" -> "c"
                 [] c = "D" -> "d" [] c = "E" -> "e" [] c = "F" -> "f"
                 [] OTHER -> c

Fold(cs) == [i \in 1..Len(cs) |-> FoldChar(cs[i])]

\* IdMatches comparing without regard to case
IdMatchesIgnoringCase(fromURL, re) == Fold(Chars(fromURL)) = Fold(Chars(String(re.Id)))

\* the comparison of the range loop
IdMatches(fromURL, re) == fromURL = String(re.Id)

\* path parameters of GET requests: every identifier the store can issue, and
\* the first one in upper case, which is never issued
LookupIds ==
    {String(u) : u \in (ClockStart + 1)..(ClockStart + MaxReceipts)} \cup {"0A"}

(***************************************************************************)
(* Requests and responses                                                  *)
(***************************************************************************)
GoodReceipt == PostReceiptJSON("Target", "2022-01-01", "14:01", "9.00",
                               << Item(" Pepsi1 ", "2.25") >>)

BadTotalReceipt == [GoodReceipt EXCEPT !.Total = "abc"]

NoColonReceipt == [GoodReceipt EXCEPT !.PurchaseTime = "1430"]

Payloads == {GoodReceipt, BadTotalReceipt, NoColonReceipt}

\* request bodies: a JSON receipt, text that is not JSON, and JSON whose
\* field types do not fit PostReceiptJSON
Bodies ==
    {[syntaxOK |-> TRUE, typesOK |-> TRUE, value |-> r] : r \in Payloads} \cup
    {[syntaxOK |-> FALSE, typesOK |-> TRUE, value |-> ZeroReceipt],
     [syntaxOK |-> TRUE, typesOK |-> FALSE, value |-> GoodReceipt]}

NoBody == [syntaxOK |-> FALSE, typesOK |-> FALSE, value |-> ZeroReceipt]

\* Decode letting a field of the wrong type pass
DecodeIgnoresTypes(b) ==
    IF ~b.syntaxOK THEN [err |-> "SyntaxError", value |-> ZeroReceipt]
    ELSE [err |-> "nil", value |-> b.value]

\* json.Decoder.Decode into a PostReceiptJSON
Decode(b) ==
    IF ~b.syntaxOK THEN [err |-> "SyntaxError", value |-> ZeroReceipt]
    ELSE IF ~b.typesOK THEN [err |-> "UnmarshalTypeError", value |-> b.value]
    ELSE [err |-> "nil", value |-> b.value]

NoResponse == [status |-> 0, kind |-> "none", text |-> "", points |-> 0]

\* the handler panicked: net/http recovers and drops the connection
AbortedResponse == [status |-> 0, kind |-> "aborted", text |-> "", points |-> 0]

BadRequestResponse ==
    [status |-> 400, kind |-> "text", text |-> "invalid receipt", points |-> 0]

NotFoundResponse ==
    [status |-> 404, kind |-> "text", text |-> "Id not found", points |-> 0]

IdResponse(id) == [status |-> 200, kind |-> "id", text |-> String(id), points |-> 0]

PointsResponse(n) == [status |-> 200, kind |-> "points", text |-> "", points |-> n]

(***************************************************************************)
(* Handler goroutines                                                      *)
(*                                                                         *)
(* One goroutine per request.  resp is what the handler has written; the   *)
(* error branches of json.Marshal and w.Write only print and return, with  *)
(* the same effect on the store and the lock as the plain return.  Steps   *)
(* that touch nothing shared (decoding, building storedData) are taken     *)
(* together with the next step that does.                                  *)
(***************************************************************************)
Procs == 1..NumProcs

NoOwner == 0

NilReceipt == StorageReceipt(0, ZeroReceipt)

\* handleProcessReceipts between a successful decode and its return
ProcessLabels == {"p_lock", "p_append", "p_write", "p_return"}

\* handleGetReceiptPoints between its start and its return
GetLabels == {"g_lock", "g_scan", "g_points", "g_write", "g_notfound", "g_return",
              "g_panic"}

\* a Lock that never waits
CanLockAlways == TRUE

\* sync.Mutex.Lock returns only when the mutex is free
CanLock == mu = NoOwner

Init ==
    /\ Receipts = << >>
    /\ mu = NoOwner
    /\ lastV7time = ClockStart
    /\ pc = [p \in Procs |-> "idle"]
    /\ body = [p \in Procs |-> NoBody]
    /\ postReceipt = [p \in Procs |-> ZeroReceipt]
    /\ storedData = [p \in Procs |-> NilReceipt]
    /\ idFromURL = [p \in Procs |-> ""]
    /\ rangeCopy = [p \in Procs |-> << >>]
    /\ idx = [p \in Procs |-> 0]
    /\ receipt = [p \in Procs |-> NilReceipt]
    /\ points = [p \in Procs |-> 0]
    /\ resp = [p \in Procs |-> NoResponse]
    /\ returned = {}
    /\ test = StorageReceipt(1, ScenarioA)
    /\ pts = 0
    /\ err = "nil"
    /\ tpc = "off"

\* handleProcessReceipts, lines 65-70: the body does not decode; 400 and
\* "invalid receipt" are written
ProcessBadBody(p) ==
    /\ pc[p] = "idle"
    /\ \E b \in Bodies :
        /\ Decode(b).err # "nil"
        /\ body' = [body EXCEPT ![p] = b]
        /\ resp' = [resp EXCEPT ![p] = BadRequestResponse]
        /\ pc' = [pc EXCEPT ![p] = "p_reject"]
    /\ UNCHANGED <<Receipts, mu, lastV7time, postReceipt, storedData, idFromURL,
                   rangeCopy, idx, receipt, points, returned, testVars>>

\* lines 71-75: the return after a failed decode; no lock was taken
ProcessReject(p) ==
    /\ pc[p] = "p_reject"
    /\ body' = [body EXCEPT ![p] = NoBody]
    /\ resp' = [resp EXCEPT ![p] = NoResponse]
    /\ pc' = [pc EXCEPT ![p] = "idle"]
    /\ UNCHANGED <<Receipts, mu, lastV7time, postReceipt, storedData, idFromURL,
                   rangeCopy, idx, receipt, points, returned, testVars>>

\* lines 65-86: the body decodes, uuid.NewV7 and storedData; on an error of
\* uuid.NewV7 the handler returns at once, having written nothing and stored
\* nothing
ProcessDecode(p) ==
    /\ pc[p] = "idle"
    /\ Len(Receipts) + Cardinality({q \in Procs : pc[q] \in ProcessLabels}) < MaxReceipts
    /\ \E b \in Bodies :
        /\ Decode(b).err = "nil"
        /\ \/ /\ body' = [body EXCEPT ![p] = b]
              /\ postReceipt' = [postReceipt EXCEPT ![p] = Decode(b).value]
              /\ lastV7time' = NewV7(lastV7time)
              /\ storedData' = [storedData EXCEPT
                                  ![p] = StorageReceipt(NewV7(lastV7time), Decode(b).value)]
              /\ pc' = [pc EXCEPT ![p] = "p_lock"]
           \/ UNCHANGED <<body, postReceipt, lastV7time, storedData, pc>>
    /\ UNCHANGED <<Receipts, mu, idFromURL, rangeCopy, idx, receipt, points, resp,
                   returned, testVars>>

\* line 88: rh.mu.Lock()
ProcessLock(p) ==
    /\ pc[p] = "p_lock"
    /\ CanLock
    /\ mu' = p
    /\ pc' = [pc EXCEPT ![p] = "p_append"]
    /\ UNCHANGED <<Receipts, lastV7time, body, postReceipt, storedData, idFromURL,
                   rangeCopy, idx, receipt, points, resp, returned, testVars>>

\* ProcessAppend releasing the lock right after the append
ProcessAppendThenUnlock(p) ==
    /\ pc[p] = "p_append"
    /\ Receipts' = Append(Receipts, storedData[p])
    /\ mu' = NoOwner
    /\ pc' = [pc EXCEPT ![p] = "p_write"]
    /\ UNCHANGED <<lastV7time, body, postReceipt, storedData, idFromURL,
                   rangeCopy, idx, receipt, points, resp, returned, testVars>>

\* line 90: the append
ProcessAppend(p) ==
    /\ pc[p] = "p_append"
    /\ Receipts' = Append(Receipts, storedData[p])
    /\ pc' = [pc EXCEPT ![p] = "p_write"]
    /\ UNCHANGED <<mu, lastV7time, body, postReceipt, storedData, idFromURL,
                   rangeCopy, idx, receipt, points, resp, returned, testVars>>

\* lines 94-106: marshal and write the identifier
ProcessWrite(p) ==
    /\ pc[p] = "p_write"
    /\ resp' = [resp EXCEPT ![p] = IdResponse(storedData[p].Id)]
    /\ returned' = returned \cup {String(storedData[p].Id)}
    /\ pc' = [pc EXCEPT ![p] = "p_return"]
    /\ UNCHANGED <<Receipts, mu, lastV7time, body, postReceipt, storedData,
                   idFromURL, rangeCopy, idx, receipt, points, testVars>>

\* line 110 and the deferred rh.mu.Unlock() of line 89
ProcessReturn(p) ==
    /\ pc[p] = "p_return"
    /\ mu' = NoOwner
    /\ body' = [body EXCEPT ![p] = NoBody]
    /\ postReceipt' = [postReceipt EXCEPT ![p] = ZeroReceipt]
    /\ storedData' = [storedData EXCEPT ![p] = NilReceipt]
    /\ resp' = [resp EXCEPT ![p] = NoResponse]
    /\ pc' = [pc EXCEPT ![p] = "idle"]
    /\ UNCHANGED <<Receipts, lastV7time, idFromURL, rangeCopy, idx, receipt,
                   points, returned, testVars>>

\* handleGetReceiptPoints, line 115: chi.URLParam
GetStart(p) ==
    /\ pc[p] = "idle"
    /\ \E id \in LookupIds : idFromURL' = [idFromURL EXCEPT ![p] = id]
    /\ pc' = [pc EXCEPT ![p] = "g_lock"]
    /\ UNCHANGED <<Receipts, mu, lastV7time, body, postReceipt, storedData,
                   rangeCopy, idx, receipt, points, resp, returned, testVars>>

\* lines 117-119: rh.mu.Lock(); the range expression is evaluated once
GetLock(p) ==
    /\ pc[p] = "g_lock"
    /\ CanLock
    /\ mu' = p
    /\ rangeCopy' = [rangeCopy EXCEPT ![p] = Receipts]
    /\ idx' = [idx EXCEPT ![p] = 1]
    /\ pc' = [pc EXCEPT ![p] = "g_scan"]
    /\ UNCHANGED <<Receipts, lastV7time, body, postReceipt, storedData, idFromURL,
                   receipt, points, resp, returned, testVars>>

\* lines 119-120: one iteration of the range loop
GetScan(p) ==
    /\ pc[p] = "g_scan"
    /\ IF idx[p] > Len(rangeCopy[p])
       THEN /\ pc' = [pc EXCEPT ![p] = "g_notfound"]
            /\ UNCHANGED <<idx, receipt>>
       ELSE IF IdMatches(idFromURL[p], rangeCopy[p][idx[p]])
       THEN /\ receipt' = [receipt EXCEPT ![p] = rangeCopy[p][idx[p]]]
            /\ pc' = [pc EXCEPT ![p] = "g_points"]
            /\ UNCHANGED idx
       ELSE /\ idx' = [idx EXCEPT ![p] = idx[p] + 1]
            /\ UNCHANGED <<pc, receipt>>
    /\ UNCHANGED <<Receipts, mu, lastV7time, body, postReceipt, storedData,
                   idFromURL, rangeCopy, points, resp, returned, testVars>>

\* GetPoints answering a findPoints error with the not-found response
GetPointsErrorNotFound(p) ==
    /\ pc[p] = "g_points"
    /\ LET out == findPoints(receipt[p])
       IN  \/ /\ out.kind = "return" /\ out.err = "nil"
              /\ points' = [points EXCEPT ![p] = out.points]
              /\ pc' = [pc EXCEPT ![p] = "g_write"]
              /\ UNCHANGED resp
           \/ /\ out.kind = "return" /\ out.err # "nil"
              /\ pc' = [pc EXCEPT ![p] = "g_notfound"]
              /\ UNCHANGED <<points, resp>>
           \/ /\ out.kind = "panic"
              /\ resp' = [resp EXCEPT ![p] = AbortedResponse]
              /\ pc' = [pc EXCEPT ![p] = "g_panic"]
              /\ UNCHANGED points
    /\ UNCHANGED <<Receipts, mu, lastV7time, body, postReceipt, storedData,
                   idFromURL, rangeCopy, idx, receipt, returned, testVars>>

\* lines 121-124: findPoints; an error is printed and the handler goes on with
\* the points findPoints returned; a panic leaves the handler without a response
GetPoints(p) ==
    /\ pc[p] = "g_points"
    /\ LET out == findPoints(receipt[p])
       IN  \/ /\ out.kind = "return"
              /\ points' = [points EXCEPT ![p] = out.points]
              /\ pc' = [pc EXCEPT ![p] = "g_write"]
              /\ UNCHANGED resp
           \/ /\ out.kind = "panic"
              /\ resp' = [resp EXCEPT ![p] = AbortedResponse]
              /\ pc' = [pc EXCEPT ![p] = "g_panic"]
              /\ UNCHANGED points
    /\ UNCHANGED <<Receipts, mu, lastV7time, body, postReceipt, storedData,
                   idFromURL, rangeCopy, idx, receipt, returned, testVars>>

\* lines 127-139: marshal and write the points
GetWrite(p) ==
    /\ pc[p] = "g_write"
    /\ resp' = [resp EXCEPT ![p] = PointsResponse(points[p])]
    /\ pc' = [pc EXCEPT ![p] = "g_return"]
    /\ UNCHANGED <<Receipts, mu, lastV7time, body, postReceipt, storedData,
                   idFromURL, rangeCopy, idx, receipt, points, returned, testVars>>

\* lines 147-148: the loop ended without a match
GetNotFound(p) ==
    /\ pc[p] = "g_notfound"
    /\ resp' = [resp EXCEPT ![p] = NotFoundResponse]
    /\ pc' = [pc EXCEPT ![p] = "g_return"]
    /\ UNCHANGED <<Receipts, mu, lastV7time, body, postReceipt, storedData,
                   idFromURL, rangeCopy, idx, receipt, points, returned, testVars>>

\* the return, or the unwinding of a panic, with the deferred rh.mu.Unlock()
\* of line 118
GetReturn(p) ==
    /\ pc[p] \in {"g_return", "g_panic"}
    /\ mu' = NoOwner
    /\ idFromURL' = [idFromURL EXCEPT ![p] = ""]
    /\ rangeCopy' = [rangeCopy EXCEPT ![p] = << >>]
    /\ idx' = [idx EXCEPT ![p] = 0]
    /\ receipt' = [receipt EXCEPT ![p] = NilReceipt]
    /\ points' = [points EXCEPT ![p] = 0]
    /\ resp' = [resp EXCEPT ![p] = NoResponse]
    /\ pc' = [pc EXCEPT ![p] = "idle"]
    /\ UNCHANGED <<Receipts, lastV7time, body, postReceipt, storedData, returned,
                   testVars>>

Next ==
    \E p \in Procs :
        \/ ProcessBadBody(p)
        \/ ProcessReject(p)
        \/ ProcessDecode(p)
        \/ ProcessLock(p)
        \/ ProcessAppend(p)
        \/ ProcessWrite(p)
        \/ ProcessReturn(p)
        \/ GetStart(p)
        \/ GetLock(p)
        \/ GetScan(p)
        \/ GetPoints(p)
        \/ GetWrite(p)
        \/ GetNotFound(p)
        \/ GetReturn(p)

Spec == Init /\ [][Next]_vars

\* TestPoint with its table drawn from Tests
TestInit ==
    /\ Receipts = << >>
    /\ mu = NoOwner
    /\ lastV7time = ClockStart
    /\ pc = [p \in Procs |-> "idle"]
    /\ body = [p \in Procs |-> NoBody]
    /\ postReceipt = [p \in Procs |-> ZeroReceipt]
    /\ storedData = [p \in Procs |-> NilReceipt]
    /\ idFromURL = [p \in Procs |-> ""]
    /\ rangeCopy = [p \in Procs |-> << >>]
    /\ idx = [p \in Procs |-> 0]
    /\ receipt = [p \in Procs |-> NilReceipt]
    /\ points = [p \in Procs |-> 0]
    /\ resp = [p \in Procs |-> NoResponse]
    /\ returned = {}
    /\ test \in Tests
    /\ pts = 0
    /\ err = "nil"
    /\ tpc = "run"

TestNext == RunTest

TestSpec == TestInit /\ [][TestNext]_vars

(***************************************************************************)
(* Properties of findPoints, checked under TestSpec                        *)
(***************************************************************************)
TotalParses(re) == ParseFloat(Chars(re.Total)).ok

PriceParses(item) == ParseFloat(Chars(item.Price)).ok

TrimmedLen(item) == Len(TrimSpace(Chars(item.ShortDescription)))

DateParses(re) ==
    LET d == Split(Chars(re.PurchaseDate), "-")
    IN  Len(d) = 3 /\ Atoi(d[3]).ok

TimeComponents(re) == Split(Chars(re.PurchaseTime), ":")

TimeParses(re) ==
    LET t == TimeComponents(re)
    IN  Len(t) = 2 /\ Atoi(t[1]).ok /\ Atoi(t[2]).ok

AllParse(re) ==
    /\ TotalParses(re)
    /\ \A i \in 1..Len(re.Items) : PriceParses(re.Items[i])
    /\ DateParses(re)
    /\ TimeParses(re)

\* the least integer q with q * d >= n, for d > 0
CeilDiv(n, d) == LET q == n \div d IN IF q * d = n THEN q ELSE q + 1

RetailerPoints(re) == AlnumCount(Chars(re.Retailer))

RoundDollarPoints(re) == IF IsWhole(ParseFloat(Chars(re.Total))) THEN 50 ELSE 0

QuarterPoints(re) == IF IsQuarterMultiple(ParseFloat(Chars(re.Total))) THEN 25 ELSE 0

PairPoints(re) == 5 * (Len(re.Items) \div 2)

DescriptionPoints(item) ==
    LET price == ParseFloat(Chars(item.Price))
    IN  IF TrimmedLen(item) % 3 = 0
        THEN CeilDiv(price.num, 5 * Pow10(price.scale))
        ELSE 0

RECURSIVE ItemsPoints(_)
ItemsPoints(items) ==
    IF items = <<>> THEN 0 ELSE DescriptionPoints(Head(items)) + ItemsPoints(Tail(items))

OddDayPoints(re) ==
    IF Atoi(Split(Chars(re.PurchaseDate), "-")[3]).val % 2 = 1 THEN 6 ELSE 0

AfternoonPoints(re) ==
    LET hrs  == Atoi(TimeComponents(re)[1]).val
        mins == Atoi(TimeComponents(re)[2]).val
    IN  IF hrs \in 14..15 /\ ~(hrs = 14 /\ mins = 0) THEN 10 ELSE 0

SevenRules(re) ==
    RetailerPoints(re) + RoundDollarPoints(re) + QuarterPoints(re) + PairPoints(re)
        + ItemsPoints(re.Items) + OddDayPoints(re) + AfternoonPoints(re)

\* C1: for every receipt whose total, item prices, date and time all parse,
\* findPoints returns a nil error and the sum of the seven rule contributions;
\* the first receipt of TestPoint scores 28 and the second 109.
C1_SumOfSevenRules ==
    /\ (tpc # "run" /\ AllParse(test)) =>
           (tpc = "ran" /\ err = "nil" /\ pts = SevenRules(test))
    /\ (tpc # "run" /\ test = StorageReceipt(1, ScenarioA)) =>
           (tpc = "ran" /\ err = "nil" /\ pts = 28)
    /\ (tpc # "run" /\ test = StorageReceipt(1, ScenarioB)) =>
           (tpc = "ran" /\ err = "nil" /\ pts = 109)

\* a receipt scored at exactly 14:00 with a qualifying item and an odd day
C1_Witness ==
    /\ tpc = "ran"
    /\ AllParse(test)
    /\ test.PurchaseTime = "14:00"
    /\ Len(test.Items) = 2
    /\ TrimmedLen(test.Items[1]) = 6
    /\ test.PurchaseDate = "2022-01-01"
    /\ pts = SevenRules(test)

\* C2: with total, scored item prices and date valid, findPoints returns an
\* error whenever purchaseTime does not split on ':' into exactly two
\* components.
C2_TimeComponentsChecked ==
    (/\ tpc # "run"
     /\ TotalParses(test)
     /\ \A i \in 1..Len(test.Items) :
            TrimmedLen(test.Items[i]) % 3 = 0 => PriceParses(test.Items[i])
     /\ DateParses(test)
     /\ Len(TimeComponents(test)) # 2)
    => (tpc = "ran" /\ err # "nil")

\* C3 as stated: findPoints returns an error if any item's price is not a
\* valid decimal number, whatever the item's description length.
C3_AnyBadPriceFails ==
    (/\ tpc # "run"
     /\ \E i \in 1..Len(test.Items) : ~PriceParses(test.Items[i]))
    => (tpc = "ran" /\ err # "nil")

\* C3 amended: findPoints returns an error (and 0 points) if the price of any
\* item whose trimmed description length is a multiple of 3 is not a valid
\* decimal number; the price of any other item is not parsed, so a receipt
\* whose total, date, time and multiple-of-3 items' prices parse is scored
\* without error.
C3_QualifyingBadPriceFails ==
    /\ (/\ tpc # "run"
        /\ \E i \in 1..Len(test.Items) :
               TrimmedLen(test.Items[i]) % 3 = 0 /\ ~PriceParses(test.Items[i]))
       => (tpc = "ran" /\ err # "nil" /\ pts = 0)
    /\ (/\ tpc # "run"
        /\ TotalParses(test) /\ DateParses(test) /\ TimeParses(test)
        /\ \A i \in 1..Len(test.Items) :
               TrimmedLen(test.Items[i]) % 3 = 0 => PriceParses(test.Items[i]))
       => (tpc = "ran" /\ err = "nil")

\* a receipt with a valid total, a bad price on a multiple-of-3 item after a
\* bad price on another item, and the error returned
C3_Witness ==
    /\ tpc = "ran"
    /\ TotalParses(test)
    /\ Len(test.Items) = 2
    /\ TrimmedLen(test.Items[1]) % 3 # 0 /\ ~PriceParses(test.Items[1])
    /\ TrimmedLen(test.Items[2]) % 3 = 0 /\ ~PriceParses(test.Items[2])
    /\ err = "ParseFloat"

(***************************************************************************)
(* Properties of the store and the handlers, checked under Spec            *)
(***************************************************************************)
StoredAt(id) == {i \in 1..Len(Receipts) : String(Receipts[i].Id) = id}

\* C4: a lookup of an identifier that no submission has returned gets the
\* not-found response (404, "Id not found"); it never reaches findPoints and
\* never gets a points response.
C4_UnknownIdNotFound ==
    \A p \in Procs :
        idFromURL[p] \notin returned =>
            /\ pc[p] \notin {"g_points", "g_write", "g_panic"}
            /\ pc[p] = "g_return" => resp[p] = NotFoundResponse

\* the upper-case form of a returned identifier was looked up and not found
C4_Witness ==
    \E p \in Procs :
        /\ pc[p] = "g_return"
        /\ idFromURL[p] = "0A"
        /\ "0a" \in returned
        /\ resp[p] = NotFoundResponse

\* C5: the stored receipts have pairwise distinct ids, and every step leaves
\* the entries already stored in place and unchanged: the store only grows at
\* its end.
C5_StoreAppendOnly ==
    [][/\ Len(Receipts') >= Len(Receipts)
       /\ \A i \in 1..Len(Receipts) : Receipts'[i] = Receipts[i]
       /\ \A i, j \in 1..Len(Receipts') :
              i # j => Receipts'[i].Id # Receipts'[j].Id]_vars

\* the store is full and a lookup has been answered
C5_Witness ==
    /\ Len(Receipts) = MaxReceipts
    /\ \E p \in Procs : pc[p] = "g_return" /\ resp[p].kind = "points"

\* C6: two submissions of the same payload get distinct identifiers, and a
\* lookup by either identifier is answered with the points of its receipt.
C6_IdenticalPayloadsRetrievable ==
    /\ \A i, j \in 1..Len(Receipts) :
           i # j => String(Receipts[i].Id) # String(Receipts[j].Id)
    /\ \A p \in Procs : \A i, j \in 1..Len(Receipts) :
           (/\ i # j
            /\ StorageReceipt(0, Receipts[i]) = StorageReceipt(0, Receipts[j])
            /\ idFromURL[p] = String(Receipts[i].Id)
            /\ pc[p] \in {"g_return", "g_panic"})
           => resp[p] = PointsResponse(findPoints(Receipts[i]).points)

Malformed(b) == ~b.syntaxOK \/ ~b.typesOK

\* C7: when the body does not decode, the submit handler writes 400 and
\* "invalid receipt", no identifier, and returns with the store as it was.
C7_BadBodyRejected ==
    [][\A p \in Procs :
         /\ (pc[p] = "idle" /\ pc'[p] # "idle" /\ body'[p] \in Bodies
                /\ Malformed(body'[p]))
            => /\ pc'[p] = "p_reject"
               /\ resp'[p] = BadRequestResponse
               /\ Receipts' = Receipts
               /\ returned' = returned
         /\ (pc[p] = "p_reject" /\ pc'[p] # "p_reject")
            => /\ pc'[p] = "idle"
               /\ Receipts' = Receipts
               /\ returned' = returned]_vars

\* a body of the wrong field types was rejected while the store held a receipt
C7_Witness ==
    \E p \in Procs :
        /\ pc[p] = "p_reject"
        /\ body[p].syntaxOK /\ ~body[p].typesOK
        /\ resp[p] = BadRequestResponse
        /\ Len(Receipts) > 0

InStore(p) == pc[p] \in {"p_append", "g_scan"}

\* C8: no two handlers are inside an append or a scan at the same time, the
\* one inside holds the lock, and the store does not change under a scan.
C8_MutualExclusion ==
    /\ \A p, q \in Procs : (p # q /\ InStore(p)) => ~InStore(q)
    /\ \A p \in Procs : InStore(p) => mu = p
    /\ \A p \in Procs : pc[p] = "g_scan" => rangeCopy[p] = Receipts

\* a scan in progress while a submission waits for the lock
C8_Witness ==
    \E p, q \in Procs :
        /\ pc[p] = "g_scan" /\ idx[p] = 2
        /\ pc[q] = "p_lock"

\* C9 as stated: a handler holding the lock is doing only the append or the
\* scan.
C9_CriticalSectionsMinimal ==
    \A p \in Procs : mu = p => pc[p] \in {"p_append", "g_scan"}

HeldLabels == {"p_append", "p_write", "p_return", "g_scan", "g_points", "g_write",
               "g_notfound", "g_return", "g_panic"}

\* C9 amended: a handler holds the lock from its Lock call until it returns,
\* that is during the append or scan and also during the points computation,
\* the marshaling and the writing of its response; it does not hold it while
\* decoding the body, generating the identifier or rejecting a bad body.
C9_LockHeldUntilReturn ==
    \A p \in Procs : mu = p <=> pc[p] \in HeldLabels

\* the lock is held by a lookup that has its points and is about to write
C9_Witness ==
    \E p, q \in Procs :
        /\ mu = p /\ pc[p] = "g_write"
        /\ pc[q] = "g_lock"

ScoringFails(re) == findPoints(re).kind = "return" /\ findPoints(re).err # "nil"

\* C10: a receipt that findPoints rejects is stored and given an identifier
\* like any other; a lookup that finds it writes a points response with 0
\* points, and the store is as it was when the scan began.
C10_ScoringErrorStillAnswers ==
    \A p \in Procs :
        /\ pc[p] = "p_return" =>
               /\ storedData[p] = StorageReceipt(storedData[p].Id, body[p].value)
               /\ \E i \in 1..Len(Receipts) : Receipts[i] = storedData[p]
               /\ resp[p] = IdResponse(storedData[p].Id)
        /\ (pc[p] = "g_return" /\ receipt[p] # NilReceipt /\ ScoringFails(receipt[p])) =>
               /\ resp[p] = PointsResponse(0)
               /\ rangeCopy[p] = Receipts

\* a stored receipt with total "abc" was looked up and answered with 0 points
C10_Witness ==
    \E p \in Procs :
        /\ pc[p] = "g_return"
        /\ receipt[p].Total = "abc"
        /\ receipt[p] \in {Receipts[i] : i \in 1..Len(Receipts)}
        /\ resp[p] = PointsResponse(0)

====
